---- MODULE Spec2Model ----
(***************************************************************************)
(* Model of src/src/utils.py: the derived-column calculator dens_per_year  *)
(* and the three yearly aggregators year_freq_series,                      *)
(* year_site_count_series and year_type_count_series, run on a pandas      *)
(* DataFrame.                                                              *)
(*                                                                         *)
(* Numbers.  A cell of a numeric column is a record [k, n]: k = "fin" for  *)
(* a finite number, "inf" for +infinity, "nan" for NaN (pandas' null).     *)
(* Dates are kept exactly as multiples of 1/Unit year (n = date * Unit),   *)
(* rates as multiples of 1/RateDen (n = rate * RateDen), quantities and    *)
(* counts as plain integers.                                               *)
(***************************************************************************)
EXTENDS Integers, Sequences, FiniteSets, TLC

VARIABLES data, result, call

vars == <<data, result, call>>

---------------------------------------------------------------------------
(* Bounds of the input tables *)

MaxRows == 2
DateLo == 2
DateHi == 2
Unit == 2
MaxQuantity == 1

Sites == {"A", "B"}
SiteLists == {<< >>, <<"A", "B">>, <<"B", "B">>}
NoSuchColumn == "no_such_column"
NoArg == "-"

---------------------------------------------------------------------------
(* Floating point cells *)

Fin(n) == [k |-> "fin", n |-> n]
NaN == [k |-> "nan", n |-> 0]
Inf == [k |-> "inf", n |-> 0]

IsFinite(x) == x.k = "fin"
IsNull(x) == x.k = "nan"

RECURSIVE Factorial(_)
Factorial(n) == IF n <= 1 THEN 1 ELSE n * Factorial(n - 1)

\* every date difference that is not 0 divides RateDen
RateDen == Factorial(DateLo + DateHi)

\* float +
Add(a, b) ==
    IF IsNull(a) \/ IsNull(b) THEN NaN
    ELSE IF a.k = "inf" \/ b.k = "inf" THEN Inf
    ELSE Fin(a.n + b.n)

\* float - of two date cells
Sub(a, b) ==
    IF IsNull(a) \/ IsNull(b) THEN NaN ELSE Fin(a.n - b.n)

\* float / of a quantity cell by a date difference: x/0 is inf, 0/0 is NaN
Div(q, d) ==
    IF IsNull(q) \/ IsNull(d) THEN NaN
    ELSE IF d.n = 0 THEN (IF q.n = 0 THEN NaN ELSE Inf)
    ELSE Fin((q.n * Unit * RateDen) \div d.n)

\* int(x) and astype(int) of a finite date: truncation toward zero
int(d) == IF d >= 0 THEN d \div Unit ELSE -((-d) \div Unit)

---------------------------------------------------------------------------
(* Python and pandas primitives *)

\* variant: the stop value is part of the range
range_through_stop(a, b) == [i \in 1..(IF b >= a THEN b - a + 1 ELSE 0) |-> a + i - 1]

range(a, b) == [i \in 1..(IF b > a THEN b - a ELSE 0) |-> a + i - 1]

ToSet(s) == {s[i] : i \in DOMAIN s}

\* dict.fromkeys(keys, v): a dict keeps its insertion order
fromkeys(keys, v) == [keys |-> keys, val |-> [y \in ToSet(keys) |-> v]]

\* data[col] raises KeyError unless col is a column of the frame
HasCol(df, col) == col \in df.columns

\* Series.min(): NaN cells are skipped, NaN when nothing is left
RECURSIVE MinFrom(_, _, _)
MinFrom(df, col, i) ==
    IF i > Len(df.rows) THEN NaN
    ELSE LET x == df.rows[i][col]
             rest == MinFrom(df, col, i + 1)
         IN  IF IsNull(x) THEN rest
             ELSE IF IsNull(rest) THEN x
             ELSE IF x.n <= rest.n THEN x ELSE rest

\* Series.max(): NaN cells are skipped, NaN when nothing is left
RECURSIVE MaxFrom(_, _, _)
MaxFrom(df, col, i) ==
    IF i > Len(df.rows) THEN NaN
    ELSE LET x == df.rows[i][col]
             rest == MaxFrom(df, col, i + 1)
         IN  IF IsNull(x) THEN rest
             ELSE IF IsNull(rest) THEN x
             ELSE IF x.n >= rest.n THEN x ELSE rest

\* variant: max() where min() is meant
minimum_is_max(df, lower_date) == MaxFrom(df, lower_date, 1)

\* variant: the minimum is taken after the rows without an upper date are dropped
minimum_after_dropna(df, lower_date) ==
    MinFrom([df EXCEPT !.rows = SelectSeq(df.rows, LAMBDA r : ~IsNull(r.upper_date))],
            lower_date, 1)

minimum(df, lower_date) == MinFrom(df, lower_date, 1)

maximum(df, upper_date) == MaxFrom(df, upper_date, 1)

\* DataFrame.dropna(subset=[col]): a new frame without the rows null in col
NotNullIn(r, col) == ~IsNull(r[col])

\* variant: a null cell is filled with 0 and the row kept
dropna_fill_zero(df, col) ==
    [df EXCEPT !.rows =
        [i \in DOMAIN df.rows |->
            [df.rows[i] EXCEPT ![col] = IF IsNull(@) THEN Fin(0) ELSE @]]]

dropna(df, col) ==
    [df EXCEPT !.rows = SelectSeq(df.rows, LAMBDA r : NotNullIn(r, col))]

\* the frame both scans run over
valid_rows(df, lower_date, upper_date) ==
    dropna(dropna(df, lower_date), upper_date)

\* variant: the bins run through the year of the maximum
date_dict_through_max(lo, hi) ==
    [keys |-> [i \in 1..(IF int(hi.n) >= int(lo.n) THEN int(hi.n) - int(lo.n) + 1 ELSE 0)
                  |-> int(lo.n) + i - 1],
     val |-> [y \in int(lo.n)..int(hi.n) |-> Fin(0)]]

\* the bin map of an aggregator
date_dict_init(lo, hi) == fromkeys(range(int(lo.n), int(hi.n)), Fin(0))

create_series(date_dict, name, index_name) ==
    [name |-> name, index_name |-> index_name,
     index |-> date_dict.keys, values |-> date_dict.val]

Returned(v) == [kind |-> "return", value |-> v]
KeyErrorColumn(col) == [kind |-> "raise", exc |-> "KeyError", missing |-> "column", key |-> col]
KeyErrorBin == [kind |-> "raise", exc |-> "KeyError", missing |-> "bin", key |-> "year"]
ValueErrorNaN == [kind |-> "raise", exc |-> "ValueError", missing |-> "none", key |-> "nan"]

\* what a call leaves behind: the frame it was given and what it returned or raised
Outcome(df, ret) == [data |-> df, ret |-> ret]

---------------------------------------------------------------------------
(* dens_per_year *)

\* data[output_column] = cells: the column is added to, or replaced in, every row
SetColumn(df, col, cells) ==
    [columns |-> df.columns \cup {col},
     rows |-> [i \in DOMAIN df.rows |->
                 [c \in (DOMAIN df.rows[i]) \cup {col} |->
                     IF c = col THEN cells[i] ELSE df.rows[i][c]]]]

dens_per_year(df, type_dens, lower_date, upper_date, output_column) ==
    IF ~HasCol(df, type_dens) THEN Outcome(df, KeyErrorColumn(type_dens))
    ELSE IF ~HasCol(df, upper_date) THEN Outcome(df, KeyErrorColumn(upper_date))
    ELSE IF ~HasCol(df, lower_date) THEN Outcome(df, KeyErrorColumn(lower_date))
    ELSE LET rate == [i \in DOMAIN df.rows |->
                        Div(df.rows[i][type_dens],
                            Sub(df.rows[i][upper_date], df.rows[i][lower_date]))]
             out == SetColumn(df, output_column, rate)
         IN  Outcome(out, Returned(out))

---------------------------------------------------------------------------
(* year_freq_series *)

\* variant: the year of the upper date is visited too
row_years_through_upper(r, lower_date, upper_date) ==
    range(int(r[lower_date].n), int(r[upper_date].n) + 1)

\* variant: the first year of the row is skipped
row_years_skip_first(r, lower_date, upper_date) ==
    range(int(r[lower_date].n) + 1, int(r[upper_date].n))

\* the years the inner loop of year_freq_series visits for one row
row_years(r, lower_date, upper_date) ==
    range(int(r[lower_date].n), int(r[upper_date].n))

\* the <<row, year>> pairs of the nested loop, in the order it visits them
RECURSIVE freq_iterations(_, _, _, _)
freq_iterations(df, lower_date, upper_date, row) ==
    IF row > Len(df.rows) THEN << >>
    ELSE LET years == row_years(df.rows[row], lower_date, upper_date)
         IN  [k \in DOMAIN years |-> <<row, years[k]>>]
                 \o freq_iterations(df, lower_date, upper_date, row + 1)

\* date_dict[year] += df[dens_per_year].iloc[row], one iteration after another
RECURSIVE freq_loop(_, _, _, _, _)
freq_loop(date_dict, df, dens_col, iters, k) ==
    IF k > Len(iters) THEN Returned(date_dict)
    ELSE LET row == iters[k][1]
             year == iters[k][2]
         IN  IF year \notin DOMAIN date_dict.val THEN KeyErrorBin
             ELSE IF ~HasCol(df, dens_col) THEN KeyErrorColumn(dens_col)
             ELSE freq_loop(
                     [date_dict EXCEPT !.val[year] = Add(@, df.rows[row][dens_col])],
                     df, dens_col, iters, k + 1)

year_freq_series(df_in, lower_date, upper_date, dens_col) ==
    IF ~HasCol(df_in, lower_date) THEN Outcome(df_in, KeyErrorColumn(lower_date))
    ELSE IF ~HasCol(df_in, upper_date) THEN Outcome(df_in, KeyErrorColumn(upper_date))
    ELSE LET lo == minimum(df_in, lower_date)
             hi == maximum(df_in, upper_date)
         IN  IF IsNull(lo) \/ IsNull(hi) THEN Outcome(df_in, ValueErrorNaN)
             ELSE LET date_dict == date_dict_init(lo, hi)
                      df == valid_rows(df_in, lower_date, upper_date)
                      iters == freq_iterations(df, lower_date, upper_date, 1)
                      done == freq_loop(date_dict, df, dens_col, iters, 1)
                  IN  IF done.kind = "return"
                      THEN Outcome(df_in,
                               Returned(create_series(done.value, "Frequency", "Year")))
                      ELSE Outcome(df_in, done)

---------------------------------------------------------------------------
(* year_site_count_series and year_type_count_series *)

\* variant: the upper end is exclusive, as in year_freq_series
covers_half_open(r, lower_date, upper_date, year) ==
    int(r[lower_date].n) <= year /\ year < int(r[upper_date].n)

\* the interval test of both counting aggregators
covers(r, lower_date, upper_date, year) ==
    int(r[lower_date].n) <= year /\ year <= int(r[upper_date].n)

matching_rows(df, lower_date, upper_date, year) ==
    SelectSeq(df.rows, LAMBDA r : covers(r, lower_date, upper_date, year))

\* [item for sublist in result_list for item in sublist]
RECURSIVE flat_list(_, _, _)
flat_list(rows, site_list, i) ==
    IF i > Len(rows) THEN << >>
    ELSE rows[i][site_list] \o flat_list(rows, site_list, i + 1)

\* variant: the flattened list is counted without set()
RECURSIVE site_loop_no_set(_, _, _, _, _, _)
site_loop_no_set(date_dict, df, lower_date, upper_date, site_list, k) ==
    IF k > Len(date_dict.keys) THEN Returned(date_dict)
    ELSE LET year == date_dict.keys[k]
             hit == SelectSeq(df.rows,
                        LAMBDA r : /\ int(r[lower_date].n) <= year
                                   /\ year <= int(r[upper_date].n))
         IN  IF Len(hit) > 0 /\ ~HasCol(df, site_list) THEN KeyErrorColumn(site_list)
             ELSE site_loop_no_set(
                     [date_dict EXCEPT !.val[year] =
                         Fin(Len(flat_list(hit, site_list, 1)))],
                     df, lower_date, upper_date, site_list, k + 1)

RECURSIVE site_loop(_, _, _, _, _, _)
site_loop(date_dict, df, lower_date, upper_date, site_list, k) ==
    IF k > Len(date_dict.keys) THEN Returned(date_dict)
    ELSE LET year == date_dict.keys[k]
             hit == matching_rows(df, lower_date, upper_date, year)
         IN  IF Len(hit) > 0 /\ ~HasCol(df, site_list) THEN KeyErrorColumn(site_list)
             ELSE IF Len(hit) = 0
             THEN site_loop(date_dict, df, lower_date, upper_date, site_list, k + 1)
             ELSE site_loop(
                     [date_dict EXCEPT !.val[year] =
                         Fin(Cardinality(ToSet(flat_list(hit, site_list, 1))))],
                     df, lower_date, upper_date, site_list, k + 1)

year_site_count_series(df_in, lower_date, upper_date, site_list) ==
    IF ~HasCol(df_in, lower_date) THEN Outcome(df_in, KeyErrorColumn(lower_date))
    ELSE IF ~HasCol(df_in, upper_date) THEN Outcome(df_in, KeyErrorColumn(upper_date))
    ELSE LET lo == minimum(df_in, lower_date)
             hi == maximum(df_in, upper_date)
         IN  IF IsNull(lo) \/ IsNull(hi) THEN Outcome(df_in, ValueErrorNaN)
             ELSE LET date_dict == date_dict_init(lo, hi)
                      df == valid_rows(df_in, lower_date, upper_date)
                      done == site_loop(date_dict, df, lower_date, upper_date, site_list, 1)
                  IN  IF done.kind = "return"
                      THEN Outcome(df_in,
                               Returned(create_series(done.value, "Site count", "Year")))
                      ELSE Outcome(df_in, done)

RECURSIVE type_loop(_, _, _, _, _)
type_loop(date_dict, df, lower_date, upper_date, k) ==
    IF k > Len(date_dict.keys) THEN date_dict
    ELSE LET year == date_dict.keys[k]
             counter == Len(matching_rows(df, lower_date, upper_date, year))
         IN  type_loop([date_dict EXCEPT !.val[year] = Fin(counter)],
                       df, lower_date, upper_date, k + 1)

year_type_count_series(df_in, lower_date, upper_date) ==
    IF ~HasCol(df_in, lower_date) THEN Outcome(df_in, KeyErrorColumn(lower_date))
    ELSE IF ~HasCol(df_in, upper_date) THEN Outcome(df_in, KeyErrorColumn(upper_date))
    ELSE LET lo == minimum(df_in, lower_date)
             hi == maximum(df_in, upper_date)
         IN  IF IsNull(lo) \/ IsNull(hi) THEN Outcome(df_in, ValueErrorNaN)
             ELSE LET date_dict == date_dict_init(lo, hi)
                      df == valid_rows(df_in, lower_date, upper_date)
                      done == type_loop(date_dict, df, lower_date, upper_date, 1)
                  IN  Outcome(df_in,
                          Returned(create_series(done, "Site count", "Year")))

---------------------------------------------------------------------------
(* Input tables and calls *)

DateCells == {Fin(d) : d \in (-DateLo)..DateHi} \cup {NaN}
QuantityCells == {Fin(q) : q \in 0..MaxQuantity}
BaseColumns == {"lower_date", "upper_date", "type_density", "site_list"}

TablesOf(RowSet) ==
    {[columns |-> BaseColumns, rows |-> rs] :
        rs \in UNION {[1..n -> RowSet] : n \in 0..MaxRows}}

\* tables whose quantities vary
DensityRows ==
    [lower_date : DateCells, upper_date : DateCells,
     type_density : QuantityCells, site_list : {<<"A">>}]

\* tables whose site lists vary
SiteRows ==
    [lower_date : DateCells, upper_date : DateCells,
     type_density : {Fin(1)}, site_list : SiteLists]

NoCall == [op |-> "none", args |-> << >>, input |-> [columns |-> {}, rows |-> << >>]]
NoResult == [kind |-> "none"]

Init ==
    /\ data \in TablesOf(DensityRows)
    /\ result = NoResult
    /\ call = NoCall

InitSites ==
    /\ data \in TablesOf(SiteRows)
    /\ result = NoResult
    /\ call = NoCall

Finish(op, args, out) ==
    /\ call' = [op |-> op, args |-> args, input |-> data]
    /\ data' = out.data
    /\ result' = out.ret

\* the column names a caller passes: the table's own, or at most one that is no column
CallArgs(third) ==
    {a \in {"lower_date", NoSuchColumn} \X {"upper_date", NoSuchColumn} \X third :
        Cardinality({i \in 1..3 : a[i] = NoSuchColumn}) <= 1}

DensPerYear ==
    \E a \in CallArgs({"type_density", NoSuchColumn}) :
        Finish("dens_per_year", a,
               dens_per_year(data, a[3], a[1], a[2], "density_per_year"))

YearFreqSeries ==
    \E a \in CallArgs({"density_per_year", "type_density", NoSuchColumn}) :
        Finish("year_freq_series", a, year_freq_series(data, a[1], a[2], a[3]))

YearSiteCountSeries ==
    \E a \in CallArgs({"site_list", NoSuchColumn}) :
        Finish("year_site_count_series", a,
               year_site_count_series(data, a[1], a[2], a[3]))

YearTypeCountSeries ==
    \E a \in CallArgs({NoArg}) :
        Finish("year_type_count_series", a,
               year_type_count_series(data, a[1], a[2]))

Next ==
    \/ DensPerYear
    \/ YearFreqSeries
    \/ YearSiteCountSeries
    \/ YearTypeCountSeries

Spec == Init /\ [][Next]_vars

SpecSites == InitSites /\ [][Next]_vars

---------------------------------------------------------------------------
(* Vocabulary of the properties *)

Aggregators == {"year_freq_series", "year_site_count_series", "year_type_count_series"}
Counters == {"year_site_count_series", "year_type_count_series"}

IsSeriesOf(op) == call.op = op /\ result.kind = "return"
IsAggSeries == call.op \in Aggregators /\ result.kind = "return"

Index == ToSet(result.value.index)
ValueAt(Y) == result.value.values[Y]

Complete(r) == ~IsNull(r.lower_date) /\ ~IsNull(r.upper_date)
RowIds == DOMAIN data.rows

\* floor of a date, in years
Floor(d) == d \div Unit

\* a date cut toward zero, in years
TowardZero(d) == IF d < 0 THEN -((-d) \div Unit) ELSE d \div Unit

\* every year a date of the tables can fall in, and one more on each side
Years == (-(DateLo + 1))..(DateHi + 1)

RowsHalfOpen(conv(_), Y) ==
    {i \in RowIds : /\ Complete(data.rows[i])
                    /\ conv(data.rows[i].lower_date.n) <= Y
                    /\ Y < conv(data.rows[i].upper_date.n)}

RowsInclusive(conv(_), Y) ==
    {i \in RowIds : /\ Complete(data.rows[i])
                    /\ conv(data.rows[i].lower_date.n) <= Y
                    /\ Y <= conv(data.rows[i].upper_date.n)}

RateOf(i, col) == IF HasCol(data, col) THEN data.rows[i][col] ELSE NaN

RECURSIVE SumRates(_, _)
SumRates(I, col) ==
    IF I = {} THEN Fin(0)
    ELSE LET i == CHOOSE x \in I : TRUE
         IN  Add(RateOf(i, col), SumRates(I \ {i}, col))

SitesAt(conv(_), Y) ==
    UNION {ToSet(data.rows[i].site_list) : i \in RowsInclusive(conv, Y)}

NonNullDates(col) == {data.rows[i][col].n : i \in {j \in RowIds : ~IsNull(data.rows[j][col])}}
MinOf(S) == CHOOSE m \in S : \A x \in S : m <= x
MaxOf(S) == CHOOSE m \in S : \A x \in S : m >= x

---------------------------------------------------------------------------
(* C1: year_freq_series, the value of a year *)

\* C1 as stated: in the series of year_freq_series the value at every year Y
\* is the sum of the rate column over exactly the rows with both dates
\* non-null and floor(lower_date) <= Y < floor(upper_date).
C1_SumOverFloorRows ==
    IsSeriesOf("year_freq_series") =>
        \A Y \in Index : ValueAt(Y) = SumRates(RowsHalfOpen(Floor, Y), call.args[3])

\* C1 amended: the same sum, over the rows with both dates non-null and
\* int(lower_date) <= Y < int(upper_date), int() cutting toward zero.
C1_SumOverTruncatedRows ==
    IsSeriesOf("year_freq_series") =>
        \A Y \in Index : ValueAt(Y) = SumRates(RowsHalfOpen(TowardZero, Y), call.args[3])

\* a year whose rows differ under floor and under int(), holding a sum that is not 0
C1_Witness ==
    /\ IsSeriesOf("year_freq_series")
    /\ \E Y \in Index :
          /\ RowsHalfOpen(Floor, Y) # RowsHalfOpen(TowardZero, Y)
          /\ IsFinite(ValueAt(Y)) /\ ValueAt(Y).n > 0

---------------------------------------------------------------------------
(* C2: year_site_count_series, the value of a year *)

\* C2 as stated: in the series of year_site_count_series the value at every
\* year Y is the number of distinct sites in the site lists of the rows with
\* both dates non-null and floor(lower_date) <= Y <= floor(upper_date); a year
\* matched by no row holds 0.
C2_DistinctSitesOfFloorRows ==
    (IsSeriesOf("year_site_count_series") /\ call.args[3] = "site_list") =>
        \A Y \in Index : ValueAt(Y) = Fin(Cardinality(SitesAt(Floor, Y)))

\* C2 amended: the same count over the rows with both dates non-null and
\* int(lower_date) <= Y <= int(upper_date), int() cutting toward zero; a site
\* of several matching rows counts once, a year matched by no row holds 0.
C2_DistinctSitesOfTruncatedRows ==
    IsSeriesOf("year_site_count_series") =>
        \A Y \in Index :
            /\ ValueAt(Y) = Fin(Cardinality(SitesAt(TowardZero, Y)))
            /\ RowsInclusive(TowardZero, Y) = {} => ValueAt(Y) = Fin(0)

\* a year matched by two rows that share one site and differ in another
C2_Witness ==
    /\ IsSeriesOf("year_site_count_series")
    /\ \E Y \in Index : \E i, j \in RowsInclusive(TowardZero, Y) :
          /\ i # j
          /\ ToSet(data.rows[i].site_list) \cap ToSet(data.rows[j].site_list) # {}
          /\ ToSet(data.rows[i].site_list) # ToSet(data.rows[j].site_list)
          /\ ValueAt(Y) = Fin(2)

---------------------------------------------------------------------------
(* C3: year_type_count_series, the value of a year *)

\* C3 as stated: in the series of year_type_count_series the value at every
\* year Y is the number of rows with both dates non-null and
\* floor(lower_date) <= Y <= floor(upper_date), equal rows counted separately.
C3_CountOfFloorRows ==
    IsSeriesOf("year_type_count_series") =>
        \A Y \in Index : ValueAt(Y) = Fin(Cardinality(RowsInclusive(Floor, Y)))

\* C3 amended: the same raw row count over the rows with both dates non-null
\* and int(lower_date) <= Y <= int(upper_date), int() cutting toward zero.
C3_CountOfTruncatedRows ==
    IsSeriesOf("year_type_count_series") =>
        \A Y \in Index : ValueAt(Y) = Fin(Cardinality(RowsInclusive(TowardZero, Y)))

\* two rows of identical content, both counted at a year
C3_Witness ==
    /\ IsSeriesOf("year_type_count_series")
    /\ Len(data.rows) = 2 /\ data.rows[1] = data.rows[2]
    /\ \E Y \in Index : ValueAt(Y) = Fin(2)

---------------------------------------------------------------------------
(* C4: the year range of the bins *)

min_all_lower == MinOf(NonNullDates("lower_date"))
max_all_upper == MaxOf(NonNullDates("upper_date"))

\* C4 as stated: the bins of every aggregator run from floor(min of all
\* non-null lower_date) up to, not including, floor(max of all non-null
\* upper_date), both taken over the full table before null-dated rows go.
C4_RangeByFloor ==
    IsAggSeries =>
        result.value.index = range(Floor(min_all_lower), Floor(max_all_upper))

\* C4 amended: the same range with int(), which cuts toward zero, for floor.
C4_RangeByTruncation ==
    IsAggSeries =>
        result.value.index = range(TowardZero(min_all_lower), TowardZero(max_all_upper))

CompleteLowers == {data.rows[i].lower_date.n : i \in {j \in RowIds : Complete(data.rows[j])}}

\* a row without upper date holds the smallest lower date and widens the bins
\* below the first year of every row that is scanned
C4_Witness ==
    /\ IsAggSeries
    /\ CompleteLowers # {}
    /\ \E i \in RowIds : /\ IsNull(data.rows[i].upper_date)
                         /\ ~IsNull(data.rows[i].lower_date)
                         /\ data.rows[i].lower_date.n = min_all_lower
    /\ \E Y \in Index : Y < TowardZero(MinOf(CompleteLowers))

---------------------------------------------------------------------------
(* C5: the keys of a series *)

min_year == TowardZero(min_all_lower)
max_year == TowardZero(max_all_upper)

ValidTable ==
    \A i \in RowIds : /\ Complete(data.rows[i])
                      /\ data.rows[i].lower_date.n <= data.rows[i].upper_date.n

Untouched(Y) ==
    IF call.op = "year_freq_series"
    THEN RowsHalfOpen(TowardZero, Y) = {}
    ELSE RowsInclusive(TowardZero, Y) = {}

---------------------------------------------------------------------------
(* C6: the years one row with integer dates contributes to *)

IntegerRow(r) ==
    /\ Complete(r)
    /\ r.lower_date.n % Unit = 0
    /\ r.upper_date.n % Unit = 0
    /\ r.lower_date.n < r.upper_date.n

IntegerRows == {i \in RowIds : IntegerRow(data.rows[i])}
FirstYear(i) == data.rows[i].lower_date.n \div Unit
LastYear(i) == data.rows[i].upper_date.n \div Unit

\* row i is scanned at Y and Y is a year of the series
ContributesAt(i, Y) ==
    /\ Y \in Index
    /\ IF call.op = "year_freq_series"
       THEN Y \in ToSet(row_years(data.rows[i], call.args[1], call.args[2]))
       ELSE covers(data.rows[i], call.args[1], call.args[2], Y)

ContributionYears(i) == {Y \in Years : ContributesAt(i, Y)}

\* what row i adds is in the value of Y
ValueHolds(i, Y) ==
    CASE call.op = "year_freq_series" ->
            HasCol(data, call.args[3]) =>
                /\ IsFinite(ValueAt(Y))
                /\ ValueAt(Y).n >= data.rows[i][call.args[3]].n
      [] call.op = "year_site_count_series" ->
            ValueAt(Y).n >= Cardinality(ToSet(data.rows[i].site_list))
      [] OTHER -> ValueAt(Y).n >= 1

---------------------------------------------------------------------------
(* C7: rows with a null date *)

Rerun(op, df, a) ==
    CASE op = "year_freq_series" -> year_freq_series(df, a[1], a[2], a[3])
      [] op = "year_site_count_series" -> year_site_count_series(df, a[1], a[2], a[3])
      [] OTHER -> year_type_count_series(df, a[1], a[2])

\* a null-dated row with another rate, another quantity and one more site
Changed(r) ==
    IF Complete(r) THEN r
    ELSE [c \in DOMAIN r |->
            CASE c = "site_list" -> r[c] \o <<"Z">>
              [] c \in {"type_density", "density_per_year"} ->
                    IF IsFinite(r[c]) THEN Fin(r[c].n + 1) ELSE Fin(1)
              [] OTHER -> r[c]]

\* the table with every null-dated row changed and entered a second time
WithNullRowsChanged(df) ==
    LET rows == [i \in DOMAIN df.rows |-> Changed(df.rows[i])]
    IN  [df EXCEPT !.rows = rows \o SelectSeq(rows, LAMBDA r : ~Complete(r))]

\* C7: after an aggregator call the table is the table that was passed, and
\* what the call returned is what it returns when every row with a null date
\* carries another rate and another site and stands in the table twice: such
\* a row adds no rate, no site and no count to any year.
C7_NullRowsAddNothing ==
    call.op \in Aggregators =>
        /\ data = call.input
        /\ result = Rerun(call.op, WithNullRowsChanged(call.input), call.args).ret

\* a series with a value that is not 0, over a table with a row that has
\* sites, a lower date inside the bins and no upper date
C7_Witness ==
    /\ IsAggSeries
    /\ \E i \in RowIds : /\ IsNull(data.rows[i].upper_date)
                         /\ ~IsNull(data.rows[i].lower_date)
                         /\ TowardZero(data.rows[i].lower_date.n) \in Index
                         /\ data.rows[i].site_list # << >>
    /\ \E Y \in Index : ValueAt(Y) # Fin(0)

---------------------------------------------------------------------------
(* C8: a column name that is no column *)

MissingArg ==
    \E i \in DOMAIN call.args :
        call.args[i] # NoArg /\ call.args[i] \notin call.input.columns

\* C8 as stated: a call of dens_per_year or of an aggregator with a column
\* name that is no column of the table raises the missing-column error for
\* every table content, returns nothing, and leaves the table as it was.
C8_MissingColumnAlwaysRaises ==
    (call.op # "none" /\ MissingArg) =>
        /\ result.kind = "raise"
        /\ result.exc = "KeyError"
        /\ result.missing = "column"
        /\ data = call.input

---------------------------------------------------------------------------
(* C9: a row with lower_date = upper_date *)

Degenerate(r) == Complete(r) /\ r.lower_date.n = r.upper_date.n

\* dens_per_year keeps the rows and stores a non-finite rate for a degenerate row
DensStored ==
    (call.op = "dens_per_year" /\ ~MissingArg) =>
        /\ result.kind = "return"
        /\ result.value = data
        /\ data.columns = call.input.columns \cup {"density_per_year"}
        /\ Len(data.rows) = Len(call.input.rows)
        /\ \A i \in RowIds :
              /\ \A c \in BaseColumns : data.rows[i][c] = call.input.rows[i][c]
              /\ Degenerate(call.input.rows[i]) =>
                    ~IsFinite(data.rows[i].density_per_year)

FreqOnDensity ==
    /\ IsSeriesOf("year_freq_series")
    /\ call.args[3] = "density_per_year"
    /\ HasCol(data, "density_per_year")

\* C9 as stated: dens_per_year stores a non-finite rate for a degenerate row
\* and keeps the rows, and year_freq_series on that table propagates the
\* fault: when the year of the row is a year of the series, the series has a
\* non-finite value.
C9_FaultPropagates ==
    /\ DensStored
    /\ (/\ FreqOnDensity
        /\ \E i \in RowIds : /\ Degenerate(data.rows[i])
                             /\ TowardZero(data.rows[i].lower_date.n) \in Index) =>
          \E Y \in Index : ~IsFinite(ValueAt(Y))

\* C9 amended: dens_per_year stores a non-finite rate for a degenerate row
\* and keeps the rows; year_freq_series on that table visits no year for the
\* row, range(int(l), int(l)) being empty, so the fault reaches no year and
\* every value of the series is finite.
C9_FaultNeverSummed ==
    /\ DensStored
    /\ FreqOnDensity =>
          /\ \A Y \in Index : IsFinite(ValueAt(Y))
          /\ \A i \in RowIds : Degenerate(data.rows[i]) => ContributionYears(i) = {}

\* a series over rates of dens_per_year with a value that is not 0, while a
\* degenerate row with rate inf has its year among the bins
C9_Witness ==
    /\ FreqOnDensity
    /\ \E i \in RowIds : /\ Degenerate(data.rows[i])
                         /\ data.rows[i].density_per_year = Inf
                         /\ TowardZero(data.rows[i].lower_date.n) \in Index
    /\ \E Y \in Index : ValueAt(Y) # Fin(0)

---------------------------------------------------------------------------
(* C10: date_dict[year] += rate addresses no missing bin *)

\* C10: when each date column of the table has a non-null value, every year
\* the accumulation of year_freq_series addresses is a key of the bin map
\* built from int(min lower_date) and int(max upper_date), and the call never
\* ends in a KeyError for a year.
C10_NoMissingBin ==
    (/\ call.op = "year_freq_series"
     /\ HasCol(call.input, call.args[1]) /\ HasCol(call.input, call.args[2])
     /\ NonNullDates("lower_date") # {} /\ NonNullDates("upper_date") # {}) =>
        LET df == valid_rows(call.input, call.args[1], call.args[2])
            iters == freq_iterations(df, call.args[1], call.args[2], 1)
            bins == date_dict_init(minimum(call.input, call.args[1]),
                                   maximum(call.input, call.args[2]))
        IN  /\ result # KeyErrorBin
            /\ \A k \in DOMAIN iters : iters[k][2] \in ToSet(bins.keys)

\* the smallest lower date stands in a row that is dropped for its null upper
\* date, and a rate was added to some year
C10_Witness ==
    /\ IsSeriesOf("year_freq_series")
    /\ CompleteLowers # {}
    /\ min_all_lower < MinOf(CompleteLowers)
    /\ \E Y \in Index : IsFinite(ValueAt(Y)) /\ ValueAt(Y).n > 0

====
